---- MODULE Spec2Model ----
(***************************************************************************)
(* Verification model of the AI request-orchestration layer of Decent4.    *)
(*                                                                         *)
(*   Spec      the AI optimization service HTTP server (test-ai-service):  *)
(*             GET /health, POST /generate, GET /stats.                    *)
(*   SpecSupp  the smart-recommendations server's                          *)
(*             GET /api/context-aware/supplements handler.                 *)
(*   SpecSig   the AI optimization service process and its SIGINT handler  *)
(*             (run-ai-optimization-service.js).                           *)
(*   SpecDeploy  the deployment runner (deploy-runner.js).                 *)
(*   SpecMetrics the essential-metrics script                              *)
(*             (ensure-essential-metrics.js).                              *)
(*   SpecSup   the enhanced development server supervisor                  *)
(*             (run-context-test.js).                                      *)
(*   SpecLauncher the development launcher with Smart Recommendations      *)
(*             (enhanced-run-with-smart-rec.js).                           *)
(*   SpecQueue the batch/priority queue of the Adaptive AI Service as      *)
(*             section 4.3 of the specification describes it.              *)
(*   SpecSvc   the Adaptive AI Service facade (cache, coalescing map,      *)
(*             provider orchestrator) as section 4 of the                  *)
(*             specification describes it; its implementation              *)
(*             (server/adaptive-ai-service.cjs) is only required, never    *)
(*             defined, by the sources.                                    *)
(***************************************************************************)
EXTENDS Integers, Sequences, FiniteSets, TLC

(***************************************************************************)
(* Bounds                                                                  *)
(***************************************************************************)
\* POST /generate requests that may be suspended in their setTimeout at once
MaxInFlight == 1

\* supplements handlers that may be suspended in an await at once
MaxSuppInFlight == 2

\* requests handed to the batch queue in one run
MaxItems == 4

\* items one flush tick takes
BatchSize == 2

\* times the upstream call of a queued item is retried
MaxRetries == 1

\* requests submitted to the service facade in one run
MaxRequests == 2

\* SIGINT deliveries to the AI optimization service process
MaxSigints == 3

\* client connections open on the AI optimization service at once
MaxConnections == 3

\* server children of the development supervisor alive or about to be started
MaxChildren == 2

\* timers of the development supervisor pending at once
MaxTimers == 2

\* runs of the essential-metrics script
MaxRuns == 2

\* questionnaires a user may have filled in
MaxQuestionnaires == 2

\* requests waiting in the service's queue when it is shut down
MaxQueued == 4

(***************************************************************************)
(* JavaScript values that reach the handlers.  A value is a record         *)
(* [t, n, s, a]: its type tag, its number, its string, its array items.    *)
(***************************************************************************)
JSUndefined == [t |-> "undefined", n |-> 0, s |-> "", a |-> <<>>]

JSNumber(n) == [t |-> "number", n |-> n, s |-> "", a |-> <<>>]

JSString(s) == [t |-> "string", n |-> 0, s |-> s, a |-> <<>>]

JSArray(a) == [t |-> "array", n |-> 0, s |-> "", a |-> a]

\* ToBoolean: undefined, null, 0 and "" are falsy, every object is truthy
Truthy(v) ==
    CASE v.t = "undefined" -> FALSE
      [] v.t = "null"      -> FALSE
      [] v.t = "number"    -> v.n # 0
      [] v.t = "string"    -> v.s # ""
      [] OTHER             -> TRUE

\* Array.isArray
IsArray(v) == v.t = "array"

\* a message whose content property is missing has content undefined
NoContent == "<undefined>"

\* the absent (undefined) value of a string-valued body field
Absent == "<undefined>"

Msg(role, content) == [role |-> role, content |-> content]

SnackQuery == <<Msg("user", "What are some healthy snacks?")>>

HeartQuery == <<Msg("system", "You are a health advisor."),
                Msg("user", "What are the best foods for cardiovascular health?")>>

(***************************************************************************)
(* Request bodies of POST /generate                                        *)
(***************************************************************************)
UserIds == {JSUndefined, JSNumber(0), JSNumber(1)}

MessagesValues == {JSUndefined, JSString("hello"), JSArray(SnackQuery), JSArray(HeartQuery)}

Complexities == {Absent, "low", "medium", "high", "very_high"}

Priorities == {"critical", "high", "normal", "low"}

\* forceFresh as sent: missing, true or false
ForceFreshValues == {"undefined", "true", "false"}

Body(u, m, c, p, f) ==
    [userId |-> u, messages |-> m, complexity |-> c, priority |-> p, forceFresh |-> f]

\* Bodies that differ in the fields the validation reads, the fields it never
\* reaches left as the test client sends them
ValidationBodies == {Body(u, m, Absent, "low", "undefined") : u \in UserIds, m \in MessagesValues}

\* Bodies that pass the validation and differ in every field the response is
\* computed from
ProcessingBodies ==
    {Body(JSNumber(1), m, c, "low", f) :
        m \in {JSArray(SnackQuery), JSArray(HeartQuery)},
        c \in Complexities, f \in ForceFreshValues}

\* Bodies that differ in the priority, which the handler only logs
PriorityBodies ==
    {Body(JSNumber(1), JSArray(SnackQuery), Absent, p, f) :
        p \in Priorities, f \in {"true", "false"}}

Bodies == ValidationBodies \cup ProcessingBodies \cup PriorityBodies

\* process.env.X as the service sees it: unset or a key
EnvValues == {JSUndefined, JSString("sk-key")}

VARIABLES
    env,        \* process.env: [OPENAI_API_KEY, GEMINI_API_KEY]
    pending,    \* POST /generate handlers suspended in their setTimeout, oldest first
    seen,       \* message arrays of the requests answered 200 so far
    last        \* the last exchange completed: [route, req, fresh, res]

httpVars == <<pending, seen, last>>

(***************************************************************************)
(* GET /health                                                             *)
(***************************************************************************)
openaiAvailable == Truthy(env.OPENAI_API_KEY)

geminiAvailable == Truthy(env.GEMINI_API_KEY)

\* a health check that forgets the second provider
HealthStatusOpenAIOnly == IF openaiAvailable THEN 200 ELSE 503

HealthStatus == IF openaiAvailable \/ geminiAvailable THEN 200 ELSE 503

HealthResponse ==
    [status |-> HealthStatus,
     body   |-> [status   |-> IF HealthStatus = 200 THEN "healthy" ELSE "degraded",
                 services |-> [openai |-> IF openaiAvailable THEN "available" ELSE "unavailable",
                               gemini |-> IF geminiAvailable THEN "available" ELSE "unavailable"]]]

NoBody == Body(JSUndefined, JSUndefined, Absent, "low", "undefined")

Health ==
    /\ last' = [route |-> "/health", req |-> NoBody, fresh |-> FALSE, res |-> HealthResponse]
    /\ UNCHANGED <<env, pending, seen>>

(***************************************************************************)
(* POST /generate                                                          *)
(***************************************************************************)
\* const { forceFresh = false } = req.body
ForceFresh(body) == IF body.forceFresh = "undefined" THEN FALSE ELSE body.forceFresh = "true"

\* if (!userId || !messages || !Array.isArray(messages)) return res.status(400)
InvalidRequest(body) ==
    \/ ~Truthy(body.userId)
    \/ ~Truthy(body.messages)
    \/ ~IsArray(body.messages)

\* processingTimes[complexity] || 1500
ProcessingTime(complexity) ==
    CASE complexity = "low"       -> 500
      [] complexity = "medium"    -> 1500
      [] complexity = "high"      -> 3000
      [] complexity = "very_high" -> 5000
      [] OTHER                    -> 1500

\* modelUsed: complexity === 'high' ? 'gpt-4o' : 'gpt-3.5-turbo'
ModelUsed(complexity) == IF complexity = "high" THEN "gpt-4o" ELSE "gpt-3.5-turbo"

\* a response that is marked cached whatever the request asked for
CachedAlways(body) == TRUE

\* cached: !forceFresh
Cached(body) == ~ForceFresh(body)

\* messages[messages.length - 1]?.content || 'your query'
LastContent(messages) ==
    IF Len(messages) = 0 THEN "your query"
    ELSE LET c == messages[Len(messages)].content
         IN  IF c = NoContent \/ c = "" THEN "your query" ELSE c

ErrorResponse(status, error) ==
    [status |-> status, body |-> [error |-> error]]

\* res.json({response, metadata}); the response text is the quoted content
GenerateResponse(body) ==
    [status |-> 200,
     body   |-> [response |-> LastContent(body.messages.a),
                 metadata |-> [complexity     |-> body.complexity,
                               processingTime |-> IF ForceFresh(body)
                                                  THEN ProcessingTime(body.complexity) ELSE 0,
                               modelUsed      |-> ModelUsed(body.complexity),
                               cached         |-> Cached(body)]]]

\* the rest of the handler once the wait, if any, is over: the log is appended
\* (the append is taken to succeed) and the response sent; fresh records
\* whether no earlier response answered the same message array
Respond(body) ==
    /\ last' = [route |-> "/generate", req |-> body, fresh |-> body.messages.a \notin seen,
                res |-> GenerateResponse(body)]
    /\ seen' = seen \cup {body.messages.a}

\* the handler up to its response or to its suspension in setTimeout
Generate(body) ==
    IF InvalidRequest(body)
    THEN /\ last' = [route |-> "/generate", req |-> body, fresh |-> FALSE,
                     res |-> ErrorResponse(400, "Invalid request. Required fields: userId, messages (array)")]
         /\ UNCHANGED <<env, pending, seen>>
    ELSE IF ForceFresh(body)
    THEN /\ Len(pending) < MaxInFlight
         /\ pending' = Append(pending, body)
         /\ UNCHANGED <<env, seen, last>>
    ELSE /\ Respond(body)
         /\ UNCHANGED <<env, pending>>

\* timers fire in the order of their expiry: a handler suspended earlier with a
\* wait no longer than this one's resumes first
TimerDue(i) ==
    \A j \in 1..(i - 1) :
        ProcessingTime(pending[j].complexity) > ProcessingTime(pending[i].complexity)

RemoveAt(s, i) == [k \in 1..(Len(s) - 1) |-> IF k < i THEN s[k] ELSE s[k + 1]]

\* the handler from its resumption to its response
GenerateResume(i) ==
    /\ TimerDue(i)
    /\ Respond(pending[i])
    /\ pending' = RemoveAt(pending, i)
    /\ UNCHANGED env

(***************************************************************************)
(* GET /stats                                                              *)
(***************************************************************************)
\* stats that count the suspended handlers as critical queue entries
StatsResponseCountingInFlight ==
    [status |-> 200,
     body   |-> [activePrompts     |-> Len(pending),
                 queueSizes        |-> [critical |-> Len(pending), high |-> 0, normal |-> 0, low |-> 0],
                 isProcessingBatch |-> FALSE,
                 cache             |-> [hits |-> 25, misses |-> 10, size |-> 35,
                                        diskSize |-> 15, fingerprintHits |-> 5]]]

StatsResponse ==
    [status |-> 200,
     body   |-> [activePrompts     |-> 0,
                 queueSizes        |-> [critical |-> 0, high |-> 0, normal |-> 0, low |-> 0],
                 isProcessingBatch |-> FALSE,
                 cache             |-> [hits |-> 25, misses |-> 10, size |-> 35,
                                        diskSize |-> 15, fingerprintHits |-> 5]]]

Stats ==
    /\ last' = [route |-> "/stats", req |-> NoBody, fresh |-> FALSE, res |-> StatsResponse]
    /\ UNCHANGED <<env, pending, seen>>

NoExchange == [route |-> "", req |-> NoBody, fresh |-> FALSE, res |-> ErrorResponse(0, "")]

HttpInit ==
    /\ pending = <<>>
    /\ seen = {}
    /\ last = NoExchange

(***************************************************************************)
(* The smart-recommendations server: GET /api/context-aware/supplements   *)
(***************************************************************************)
VARIABLES
    providerUp,   \* whether a call to the provider succeeds: [openai, gemini]
    suppPending,  \* supplements handlers suspended in an await, oldest first
    suppLast      \* the last supplements exchange completed: [userId, stage, res]

suppVars == <<providerUp, suppPending, suppLast>>

\* the x-user-id header as sent
UserIdHeaders == {"<undefined>", "1", "2"}

\* the recommendations a successful generation returns
RecommendationCounts == {0, 2}

SuppResponse(userId, stage, status, body) ==
    [userId |-> userId, stage |-> stage, res |-> [status |-> status, body |-> body]]

SuppFailure(error) == [success |-> FALSE, error |-> error]

\* the authentication middleware, then the handler up to its first await
SupplementsRequest(header) ==
    IF header = "<undefined>"
    THEN /\ suppLast' = SuppResponse(header, "auth", 401,
                                      [success |-> FALSE, error |-> "Authentication required"])
         /\ UNCHANGED <<env, providerUp, suppPending>>
    ELSE /\ Len(suppPending) < MaxSuppInFlight
         /\ suppPending' = Append(suppPending, [userId |-> header, pc |-> "getUserHealthData"])
         /\ UNCHANGED <<env, providerUp, suppLast>>

\* the handler from the return of getUserHealthData to its next await: a
\* rejected fetch is caught (500); a missing OpenAI key is answered 500
SupplementsFetched(i, fetched) ==
    /\ suppPending[i].pc = "getUserHealthData"
    /\ IF ~fetched
       THEN /\ suppLast' = SuppResponse(suppPending[i].userId, "getUserHealthData", 500,
                                         SuppFailure("Recommendation Generation Failed"))
            /\ suppPending' = RemoveAt(suppPending, i)
       ELSE IF ~Truthy(env.OPENAI_API_KEY)
       THEN /\ suppLast' = SuppResponse(suppPending[i].userId, "keyCheck", 500,
                                         SuppFailure("API Configuration Required"))
            /\ suppPending' = RemoveAt(suppPending, i)
       ELSE /\ suppPending' = [suppPending EXCEPT ![i].pc = "generateSupplementRecommendations"]
            /\ UNCHANGED suppLast
    /\ UNCHANGED <<env, providerUp>>

\* how the call of generateSupplementRecommendations can end.  The handler
\* calls it as the OpenAI generation; the module that defines it is not among
\* the sources, so with OpenAI failing and Gemini up both endings are kept
GenerateOutcomes ==
    IF providerUp.openai THEN {"resolves"}
    ELSE IF providerUp.gemini THEN {"resolves", "throws"}
    ELSE {"throws"}

\* the handler from the return of generateSupplementRecommendations to its response
SupplementsGenerated(i, outcome, n) ==
    /\ suppPending[i].pc = "generateSupplementRecommendations"
    /\ outcome \in GenerateOutcomes
    /\ suppLast' =
          IF outcome = "throws"
          THEN SuppResponse(suppPending[i].userId, "generateSupplementRecommendations", 500,
                            SuppFailure("Recommendation Generation Failed"))
          ELSE SuppResponse(suppPending[i].userId, "done", 200,
                            [success |-> TRUE, recommendations |-> n])
    /\ suppPending' = RemoveAt(suppPending, i)
    /\ UNCHANGED <<env, providerUp>>

SuppInit ==
    /\ providerUp \in {u \in [openai : BOOLEAN, gemini : BOOLEAN] :
                            /\ u.openai => Truthy(env.OPENAI_API_KEY)
                            /\ u.gemini => Truthy(env.GEMINI_API_KEY)}
    /\ suppPending = <<>>
    /\ suppLast = SuppResponse("<undefined>", "", 0, SuppFailure(""))

SuppIdle ==
    /\ providerUp = [openai |-> FALSE, gemini |-> FALSE]
    /\ suppPending = <<>>
    /\ suppLast = SuppResponse("<undefined>", "", 0, SuppFailure(""))

(***************************************************************************)
(* The batch / priority queue of the Adaptive AI Service (section 4.3)     *)
(***************************************************************************)
VARIABLES
    tiers,      \* the priority tier of every request handed over, by item id
    queues,     \* [high, normal, low]: the queued item ids of each tier, oldest first
    cancelled,  \* queued items whose caller disconnected
    batch,      \* the items the current flush tick took and has not finished yet
    attempts,   \* failed upstream calls of the head of the batch
    serviced,   \* every item a flush tick took, in the order of service
    horizon,    \* for each serviced item, the number of items handed over by then
    ack         \* the last answer of enqueue: [queued, position]

queueVars == <<tiers, queues, cancelled, batch, attempts, serviced, horizon, ack>>

Tiers == {"critical", "high", "normal", "low"}

\* enqueue(item): critical is processed at once and never queued; any other
\* tier is appended to its queue and acknowledged with its position
Enqueue(tier) ==
    /\ Len(tiers) < MaxItems
    /\ tiers' = Append(tiers, tier)
    /\ IF tier = "critical"
       THEN /\ ack' = [queued |-> FALSE, position |-> 0]
            /\ UNCHANGED queues
       ELSE /\ queues' = [queues EXCEPT ![tier] = Append(@, Len(tiers) + 1)]
            /\ ack' = [queued |-> TRUE, position |-> Len(queues[tier]) + 1]
    /\ UNCHANGED <<cancelled, batch, attempts, serviced, horizon>>

\* the caller of a queued item disconnects
Cancel(item) ==
    /\ \E t \in DOMAIN queues : \E k \in 1..Len(queues[t]) : queues[t][k] = item
    /\ item \notin cancelled
    /\ cancelled' = cancelled \cup {item}
    /\ UNCHANGED <<tiers, queues, batch, attempts, serviced, horizon, ack>>

\* a flush that walks the tiers from the lowest to the highest
ServiceOrderLowestFirst(q) == q.low \o q.normal \o q.high

\* the queued items in the order of service: tier by tier, each tier oldest first
ServiceOrder(q) == q.high \o q.normal \o q.low

\* the service order without the cancelled items
Live(order, gone) == SelectSeq(order, LAMBDA i : i \notin gone)

Prefix(order, n) == SubSeq(order, 1, IF Len(order) < n THEN Len(order) ELSE n)

\* the items a flush tick takes: the first BatchSize live items
TakeBatch(q, gone) == Prefix(Live(ServiceOrder(q), gone), BatchSize)

\* the queued items a flush tick removes: those it takes and the cancelled
\* ones it skips on the way
Drained(q, gone) ==
    LET order == ServiceOrder(q)
        taken == TakeBatch(q, gone)
        upto  == IF Len(taken) < BatchSize \/ Len(taken) = 0 THEN Len(order)
                 ELSE CHOOSE k \in 1..Len(order) : order[k] = taken[Len(taken)]
    IN  {order[k] : k \in 1..upto}

\* the flush tick: not re-entered while a batch is being processed
FlushTick ==
    /\ batch = <<>>
    /\ ServiceOrder(queues) # <<>>
    /\ LET taken == TakeBatch(queues, cancelled)
           gone  == Drained(queues, cancelled)
       IN  /\ batch' = taken
           /\ queues' = [t \in DOMAIN queues |->
                            SelectSeq(queues[t], LAMBDA i : i \notin gone)]
           /\ cancelled' = cancelled \ gone
           /\ serviced' = serviced \o taken
           /\ horizon' = horizon \o [k \in 1..Len(taken) |-> Len(tiers)]
    /\ attempts' = 0
    /\ UNCHANGED <<tiers, ack>>

\* the upstream call of the head of the batch returns: a failed call is
\* retried MaxRetries times, then the item is resolved with an error, and the
\* tick goes on with the next item either way
ProcessItem(ok) ==
    /\ batch # <<>>
    /\ IF ok \/ attempts >= MaxRetries
       THEN /\ batch' = Tail(batch)
            /\ attempts' = 0
       ELSE /\ attempts' = attempts + 1
            /\ UNCHANGED batch
    /\ UNCHANGED <<tiers, queues, cancelled, serviced, horizon, ack>>

QueueInit ==
    /\ tiers = <<>>
    /\ queues = [high |-> <<>>, normal |-> <<>>, low |-> <<>>]
    /\ cancelled = {}
    /\ batch = <<>>
    /\ attempts = 0
    /\ serviced = <<>>
    /\ horizon = <<>>
    /\ ack = [queued |-> FALSE, position |-> 0]

(***************************************************************************)
(* The service facade of the Adaptive AI Service (sections 4.1, 4.4, 4.5): *)
(* fingerprint cache, coalescing map and provider orchestrator             *)
(***************************************************************************)
VARIABLES
    reqs,          \* the requests submitted: [content, status, call, res, cached]
    cache,         \* the response stored for each fingerprint
    computations,  \* the coalescing map: computations in flight [fp, call, provider, waiters]
    available,     \* provider health: whether the provider is tried
    calls,         \* invocations of the provider orchestrator so far
    fallbacks      \* provider failures counted so far

svcVars == <<reqs, cache, computations, available, calls, fallbacks>>

Contents == {"What are some healthy snacks?", "what are  some healthy snacks?",
             "Best foods for heart health?"}

\* the fingerprint: the content case-folded with its white space collapsed
Fingerprint(content) ==
    CASE content = "What are some healthy snacks?"  -> "what are some healthy snacks?"
      [] content = "what are  some healthy snacks?" -> "what are some healthy snacks?"
      [] OTHER                                      -> "best foods for heart health?"

Fingerprints == {Fingerprint(c) : c \in Contents}

\* the fixed preference order of the providers
Providers == <<"openai", "gemini">>

NoResponse == [content |-> "", call |-> 0, provider |-> ""]

\* lookup(request): the entry stored for the fingerprint, or a miss
Lookup(fp) == cache[fp]

\* a facade that never consults the coalescing map
InFlightNeverFound(fp) == {}

\* the computation in flight for a fingerprint, if any
InFlight(fp) == {c \in computations : c.fp = fp}

\* the first provider after position k of the preference order that is tried
NextProvider(k, avail) ==
    LET later == {j \in (k + 1)..Len(Providers) : avail[Providers[j]]}
    IN  IF later = {} THEN 0 ELSE CHOOSE j \in later : \A i \in later : j <= i

Request(content, status, call, res, cached) ==
    [content |-> content, status |-> status, call |-> call, res |-> res, cached |-> cached]

\* the request id waits for the response of its fingerprint: it joins the
\* computation in flight or, when there is none, the orchestrator is invoked;
\* with no provider to try the request fails with AllProvidersUnavailable
Compute(id, content, rs) ==
    LET fp == Fingerprint(content)
    IN  IF InFlight(fp) # {}
        THEN LET c == CHOOSE c \in InFlight(fp) : TRUE
             IN  /\ computations' = (computations \ {c}) \cup
                                         {[c EXCEPT !.waiters = @ \cup {id}]}
                 /\ reqs' = [rs EXCEPT ![id] = Request(content, "waiting", c.call, NoResponse, FALSE)]
                 /\ UNCHANGED calls
        ELSE IF NextProvider(0, available) = 0
        THEN /\ reqs' = [rs EXCEPT ![id] = Request(content, "failed", 0, NoResponse, FALSE)]
             /\ UNCHANGED <<computations, calls>>
        ELSE /\ calls' = calls + 1
             /\ computations' = computations \cup
                    {[fp |-> fp, call |-> calls + 1,
                      provider |-> NextProvider(0, available), waiters |-> {id}]}
             /\ reqs' = [rs EXCEPT ![id] = Request(content, "waiting", calls + 1, NoResponse, FALSE)]

\* generateCompletion(request): cache lookup unless forceFresh, then the
\* orchestrator for a critical request and the batch queue for any other
GenerateCompletion(content, priority, forceFresh) ==
    LET id == Len(reqs) + 1
        fp == Fingerprint(content)
        rs == Append(reqs, Request(content, "queued", 0, NoResponse, FALSE))
    IN  /\ Len(reqs) < MaxRequests
        /\ IF ~forceFresh /\ Lookup(fp) # NoResponse
           THEN /\ reqs' = Append(reqs, Request(content, "done", 0, Lookup(fp), TRUE))
                /\ UNCHANGED <<computations, calls>>
           ELSE IF priority = "critical"
           THEN Compute(id, content, rs)
           ELSE /\ reqs' = rs
                /\ UNCHANGED <<computations, calls>>
        /\ UNCHANGED <<cache, available, fallbacks>>

\* a flush tick of the batch queue hands a queued request to the orchestrator
FlushRequest(id) ==
    /\ reqs[id].status = "queued"
    /\ Compute(id, reqs[id].content, reqs)
    /\ UNCHANGED <<cache, available, fallbacks>>

Settle(rs, waiters, status, res) ==
    [i \in 1..Len(rs) |-> IF i \in waiters THEN [rs[i] EXCEPT !.status = status, !.res = res]
                          ELSE rs[i]]

\* the upstream call of a computation returns.  A success is stored in the
\* cache and resolves every waiter; a failure marks the provider unavailable,
\* counts a fallback and moves on to the next provider, and with no provider
\* left every waiter fails with AllProvidersUnavailable
ProviderReturns(c, ok) ==
    LET res == [content |-> c.fp, call |-> c.call, provider |-> Providers[c.provider]]
        avail == [available EXCEPT ![Providers[c.provider]] = FALSE]
        next == NextProvider(c.provider, avail)
    IN  IF ok
        THEN /\ cache' = [cache EXCEPT ![c.fp] = res]
             /\ reqs' = Settle(reqs, c.waiters, "done", res)
             /\ computations' = computations \ {c}
             /\ UNCHANGED <<available, calls, fallbacks>>
        ELSE /\ available' = avail
             /\ fallbacks' = fallbacks + 1
             /\ IF next = 0
                THEN /\ reqs' = Settle(reqs, c.waiters, "failed", NoResponse)
                     /\ computations' = computations \ {c}
                ELSE /\ computations' = (computations \ {c}) \cup {[c EXCEPT !.provider = next]}
                     /\ UNCHANGED reqs
             /\ UNCHANGED <<cache, calls>>

\* the cool-down of a provider marked unavailable ends
CoolDownEnds(p) ==
    /\ ~available[p]
    /\ available' = [available EXCEPT ![p] = TRUE]
    /\ UNCHANGED <<reqs, cache, computations, calls, fallbacks>>

SvcInit ==
    /\ reqs = <<>>
    /\ cache = [fp \in Fingerprints |-> NoResponse]
    /\ computations = {}
    /\ available = [p \in {"openai", "gemini"} |-> TRUE]
    /\ calls = 0
    /\ fallbacks = 0

(***************************************************************************)
(* The AI optimization service process and its SIGINT handler              *)
(* (run-ai-optimization-service.js); aiService.shutdown() as section 4.5   *)
(* describes it                                                            *)
(***************************************************************************)
VARIABLES
    aiService,       \* the service: [stopped, queued, flushed, providers]
    listening,       \* whether the HTTP server still accepts connections
    connections,     \* client connections that are open
    closeCallbacks,  \* callbacks registered with server.close and not yet run
    exitTimers,      \* force-exit timers pending, in the order they were set
    exited,          \* how the process ended: [code, by], or Running
    sigints,         \* SIGINT deliveries handled so far
    afterFirst       \* the service and server as the first delivery left them

sigVars == <<aiService, listening, connections, closeCallbacks, exitTimers,
             exited, sigints, afterFirst>>

Running == [code |-> -1, by |-> "running"]

NoSnapshot == [aiService |-> [stopped |-> FALSE, queued |-> 0, flushed |-> 0,
                              providers |-> "connected"],
               listening |-> TRUE]

\* a shutdown that starts the service again when it was already stopped
ShutdownRestarting(service) ==
    [stopped   |-> ~service.stopped,
     queued    |-> 0,
     flushed   |-> service.flushed + service.queued,
     providers |-> IF service.stopped THEN "connected" ELSE "released"]

\* shutdown(): flushes the queued items and releases the provider connections
Shutdown(service) ==
    [stopped   |-> TRUE,
     queued    |-> 0,
     flushed   |-> service.flushed + service.queued,
     providers |-> "released"]

\* a request is queued by the running service
SubmitWork ==
    /\ exited = Running
    /\ ~aiService.stopped
    /\ aiService.queued < MaxQueued
    /\ aiService' = [aiService EXCEPT !.queued = @ + 1]
    /\ UNCHANGED <<listening, connections, closeCallbacks, exitTimers, exited,
                   sigints, afterFirst>>

\* a client connects to the listening server
Connect ==
    /\ exited = Running
    /\ listening
    /\ connections < MaxConnections
    /\ connections' = connections + 1
    /\ UNCHANGED <<aiService, listening, closeCallbacks, exitTimers, exited,
                   sigints, afterFirst>>

\* the server emits 'close' once it neither listens nor has a connection;
\* the first callback registered with server.close() then ends the process
CloseEmitted(isListening, open, callbacks) ==
    ~isListening /\ open = 0 /\ callbacks > 0

\* a client connection ends
Disconnect ==
    /\ exited = Running
    /\ connections > 0
    /\ connections' = connections - 1
    /\ exited' = IF CloseEmitted(listening, connections - 1, closeCallbacks)
                 THEN [code |-> 0, by |-> "close"] ELSE exited
    /\ UNCHANGED <<aiService, listening, closeCallbacks, exitTimers, sigints, afterFirst>>

\* process.on('SIGINT'): shutdown(), server.close(callback), setTimeout(5000)
Sigint ==
    /\ exited = Running
    /\ sigints < MaxSigints
    /\ sigints' = sigints + 1
    /\ aiService' = Shutdown(aiService)
    /\ listening' = FALSE
    /\ closeCallbacks' = closeCallbacks + 1
    /\ exitTimers' = Append(exitTimers, sigints + 1)
    /\ exited' = IF CloseEmitted(FALSE, connections, closeCallbacks + 1)
                 THEN [code |-> 0, by |-> "close"] ELSE exited
    /\ afterFirst' = IF sigints = 0
                     THEN [aiService |-> Shutdown(aiService), listening |-> FALSE]
                     ELSE afterFirst
    /\ UNCHANGED connections

\* the oldest force-exit timer expires
ForceExit ==
    /\ exited = Running
    /\ exitTimers # <<>>
    /\ exited' = [code |-> 1, by |-> "timer"]
    /\ exitTimers' = Tail(exitTimers)
    /\ UNCHANGED <<aiService, listening, connections, closeCallbacks, sigints, afterFirst>>

SigInit ==
    /\ aiService = NoSnapshot.aiService
    /\ listening = TRUE
    /\ connections = 0
    /\ closeCallbacks = 0
    /\ exitTimers = <<>>
    /\ exited = Running
    /\ sigints = 0
    /\ afterFirst = NoSnapshot

(***************************************************************************)
(* The deployment runner (deploy-runner.js)                                *)
(***************************************************************************)
VARIABLES
    files,           \* the files that exist in the working directory
    selectedOption,  \* the path of the server option selected, "" before the run
    launched,        \* the child processes spawned so far: [command, arg]
    startScript,     \* the start.sh child: "none", "running", "error" or "exited"
    serverProcess,   \* the server child: [state, code]
    runner           \* the runner itself: [state, code]

deployVars == <<files, selectedOption, launched, startScript, serverProcess, runner>>

\* the server options in order of preference
serverOptions ==
    <<"./dist/server/index.js", "./server/index.js", "./optimized-server.cjs",
      "./server.mjs", "./server.js">>

FallbackServer == "./fallback-server.js"

StartScript == "./start.sh"

DeployFiles == {serverOptions[i] : i \in 1..Len(serverOptions)} \cup {StartScript}

\* exit codes of a child; NoCode stands for null (no exit yet, or killed by a signal)
NoCode == -1

ChildCodes == {0, 1, NoCode}

\* the first option whose file exists, or the fallback server
SelectOption(existing) ==
    LET found == {i \in 1..Len(serverOptions) : serverOptions[i] \in existing}
    IN  IF found = {} THEN FallbackServer
        ELSE serverOptions[CHOOSE i \in found : \A j \in found : i <= j]

Command(command, arg) == [command |-> command, arg |-> arg]

\* executeServer(): spawn('node', [selectedOption.path])
ExecuteServer(option) ==
    /\ serverProcess' = [state |-> "running", code |-> NoCode]
    /\ launched' = Append(launched, Command("node", option))

\* process.exit(code); a null code ends the process with 0
ProcessExit(code) == [state |-> "exited", code |-> IF code = NoCode THEN 0 ELSE code]

\* the script from its first line to the end of its synchronous part
RunDeploy(chmodOk) ==
    /\ runner.state = "starting"
    /\ selectedOption' = SelectOption(files)
    /\ files' = IF SelectOption(files) = FallbackServer
                THEN files \cup {FallbackServer} ELSE files
    /\ runner' = [runner EXCEPT !.state = "running"]
    /\ IF StartScript \in files /\ chmodOk
       THEN /\ startScript' = "running"
            /\ launched' = Append(launched, Command(StartScript, ""))
            /\ UNCHANGED serverProcess
       ELSE /\ ExecuteServer(SelectOption(files))
            /\ UNCHANGED startScript

\* startScript.on('error'): fall back to direct server execution
StartScriptError ==
    /\ runner.state = "running"
    /\ startScript = "running"
    /\ startScript' = "error"
    /\ ExecuteServer(selectedOption)
    /\ UNCHANGED <<files, selectedOption, runner>>

\* start.sh ends; nothing listens to it and the runner has nothing left to do
StartScriptExit ==
    /\ runner.state = "running"
    /\ startScript = "running"
    /\ startScript' = "exited"
    /\ runner' = ProcessExit(0)
    /\ UNCHANGED <<files, selectedOption, launched, serverProcess>>

\* serverProcess.on('error'): process.exit(1)
ServerSpawnError ==
    /\ runner.state = "running"
    /\ serverProcess.state = "running"
    /\ serverProcess' = [state |-> "error", code |-> NoCode]
    /\ runner' = ProcessExit(1)
    /\ UNCHANGED <<files, selectedOption, launched, startScript>>

\* serverProcess.on('exit'): if (code !== 0) process.exit(code); after a
\* clean exit the runner has nothing left to do and ends as well
ServerExit(code) ==
    /\ runner.state = "running"
    /\ serverProcess.state = "running"
    /\ serverProcess' = [state |-> "exited", code |-> code]
    /\ runner' = ProcessExit(code)
    /\ UNCHANGED <<files, selectedOption, launched, startScript>>

\* SIGINT or SIGTERM: process.exit(0)
DeploySignal ==
    /\ runner.state = "running"
    /\ runner' = ProcessExit(0)
    /\ UNCHANGED <<files, selectedOption, launched, startScript, serverProcess>>

DeployIdle ==
    /\ selectedOption = ""
    /\ launched = <<>>
    /\ startScript = "none"
    /\ serverProcess = [state |-> "none", code |-> NoCode]
    /\ runner = [state |-> "starting", code |-> NoCode]

DeployInit == files \in SUBSET DeployFiles /\ DeployIdle

(***************************************************************************)
(* The essential-metrics maintenance script (ensure-essential-metrics.js)  *)
(* run against a database that nothing else writes to meanwhile            *)
(***************************************************************************)
VARIABLES
    users,            \* users[u] = [onboarding_completed, questionnaires]
    health_metrics,   \* health_metrics[u][type] = number of rows of that type
    metricsBefore,    \* health_metrics before the first run
    metricsRun,       \* the run: [pc, number, completed, cleanBefore]
    usersResult,      \* rows of the users query that are still to be processed
    missingMetrics,   \* metrics still to be inserted for the user being processed
    addedMetrics,     \* rows inserted by the current run
    updatedCount      \* users the current run added metrics for

metricsVars == <<users, health_metrics, metricsBefore, metricsRun, usersResult,
                 missingMetrics, addedMetrics, updatedCount>>

UserIdsOfTable == {1, 2}

essentialMetrics == <<"sleep-duration", "stress-level", "exercise-frequency", "weight">>

EssentialTypes == {essentialMetrics[i] : i \in 1..Len(essentialMetrics)}

\* the essential metrics a user may have before the script ever ran
MetricSetsBefore ==
    {{}, {"weight"}, {"sleep-duration", "stress-level"}, EssentialTypes}

RECURSIVE Copies(_, _)
Copies(x, n) == IF n = 0 THEN <<>> ELSE <<x>> \o Copies(x, n - 1)

\* SELECT u.id FROM users u JOIN questionnaires q ON u.id = q.user_id
\* WHERE u.onboarding_completed = true ORDER BY u.id: one row per questionnaire
RECURSIVE UsersQueryFrom(_, _)
UsersQueryFrom(table, u) ==
    IF u \notin DOMAIN table THEN <<>>
    ELSE (IF table[u].onboarding_completed THEN Copies(u, table[u].questionnaires) ELSE <<>>)
            \o UsersQueryFrom(table, u + 1)

UsersQuery(table) == UsersQueryFrom(table, 1)

\* SELECT type FROM health_metrics WHERE user_id = $1 AND type = ANY($2)
ExistingMetrics(rows) == {t \in EssentialTypes : rows[t] > 0}

\* a filter that takes every essential metric for missing
MissingMetricsAll(existingMetrics) == essentialMetrics

\* essentialMetrics.filter(m => !existingMetrics.has(m.type))
MissingMetrics(existingMetrics) ==
    SelectSeq(essentialMetrics, LAMBDA t : t \notin existingMetrics)

\* a query throws: the error is rethrown after pool.end()
RunFails ==
    /\ metricsRun' = [metricsRun EXCEPT !.pc = "failed"]
    /\ UNCHANGED <<users, health_metrics, metricsBefore, usersResult, missingMetrics,
                   addedMetrics, updatedCount>>

\* ensureEssentialMetrics() up to the result of the users query
StartRun(ok) ==
    /\ metricsRun.pc \in {"idle", "done", "failed"}
    /\ metricsRun.number < MaxRuns
    /\ metricsRun' = [pc          |-> IF ok THEN "users" ELSE "failed",
                      number      |-> metricsRun.number + 1,
                      completed   |-> metricsRun.completed,
                      cleanBefore |-> metricsRun.completed > 0]
    /\ usersResult' = IF ok THEN UsersQuery(users) ELSE <<>>
    /\ missingMetrics' = <<>>
    /\ addedMetrics' = 0
    /\ updatedCount' = 0
    /\ UNCHANGED <<users, health_metrics, metricsBefore>>

\* processUser() up to the result of the existing-metrics query
ProcessUser(ok) ==
    /\ metricsRun.pc = "users"
    /\ usersResult # <<>>
    /\ IF ~ok THEN RunFails
       ELSE LET missing == MissingMetrics(ExistingMetrics(health_metrics[Head(usersResult)]))
            IN  /\ missingMetrics' = missing
                /\ IF missing = <<>>
                   THEN usersResult' = Tail(usersResult) /\ UNCHANGED metricsRun
                   ELSE metricsRun' = [metricsRun EXCEPT !.pc = "insert"]
                           /\ UNCHANGED usersResult
                /\ UNCHANGED <<users, health_metrics, metricsBefore, addedMetrics, updatedCount>>

\* one INSERT INTO health_metrics; after the last one processUser returns
InsertMetric(ok) ==
    /\ metricsRun.pc = "insert"
    /\ IF ~ok THEN RunFails
       ELSE LET userId == Head(usersResult)
                type == Head(missingMetrics)
            IN  /\ health_metrics' = [health_metrics EXCEPT ![userId][type] = @ + 1]
                /\ addedMetrics' = addedMetrics + 1
                /\ missingMetrics' = Tail(missingMetrics)
                /\ IF Tail(missingMetrics) = <<>>
                   THEN /\ usersResult' = Tail(usersResult)
                        /\ updatedCount' = updatedCount + 1
                        /\ metricsRun' = [metricsRun EXCEPT !.pc = "users"]
                   ELSE UNCHANGED <<usersResult, updatedCount, metricsRun>>
                /\ UNCHANGED <<users, metricsBefore>>

\* the loop is over: the summary is logged and the pool ended
FinishRun ==
    /\ metricsRun.pc = "users"
    /\ usersResult = <<>>
    /\ metricsRun' = [metricsRun EXCEPT !.pc = "done", !.completed = @ + 1]
    /\ UNCHANGED <<users, health_metrics, metricsBefore, usersResult, missingMetrics,
                   addedMetrics, updatedCount>>

MetricsIdle ==
    /\ metricsRun = [pc |-> "idle", number |-> 0, completed |-> 0, cleanBefore |-> FALSE]
    /\ usersResult = <<>>
    /\ missingMetrics = <<>>
    /\ addedMetrics = 0
    /\ updatedCount = 0

\* the tables as the application left them
TablesInit ==
    /\ users \in [UserIdsOfTable -> [onboarding_completed : BOOLEAN,
                                      questionnaires : 0..MaxQuestionnaires]]
    /\ \E before \in [UserIdsOfTable -> MetricSetsBefore] :
          health_metrics = [u \in UserIdsOfTable |->
                               [t \in EssentialTypes |-> IF t \in before[u] THEN 1 ELSE 0]]
    /\ metricsBefore = health_metrics

NoTables ==
    /\ users = [u \in UserIdsOfTable |-> [onboarding_completed |-> FALSE, questionnaires |-> 0]]
    /\ health_metrics = [u \in UserIdsOfTable |-> [t \in EssentialTypes |-> 0]]
    /\ metricsBefore = health_metrics

(***************************************************************************)
(* The enhanced development server supervisor (run-context-test.js,        *)
(* lines 123-560).  Time is kept by the order of the timers: a timer       *)
(* expires after every timer that was set before it with a delay that is   *)
(* not longer.  now - lastRestartTime < 10000 is a timer of its own, the   *)
(* window, set at every start and pending for ten seconds.                 *)
(***************************************************************************)
VARIABLES
    supervisor,         \* the supervisor process: [state, code]
    devServerProcess,   \* serverProcess: NullRef, NoPid, ExitedRef or the child's slot
    devClientProcess,   \* clientProcess: "null", "alive" or "exited"
    alive,              \* slots of the server children that are alive
    restartCount,
    shutdownRequested,
    timers,             \* pending timers in the order they were set: [kind, delay, child]
    healthCheck,        \* the health check in progress: [pc, serverAlive, clientAlive]
    lastEvent           \* what the last step did to the children: [server, client, by, child, countBefore]

supVars == <<supervisor, devServerProcess, devClientProcess, alive, restartCount,
             shutdownRequested, timers, healthCheck, lastEvent>>

\* CONFIG.server and the delays written in the code
maxRestarts == 10

restartDelay == 3000

healthCheckInterval == 15000

gracefulShutdownTimeout == 10000

RapidRestartWindow == 10000

RapidRestartCount == 3

CooldownStep == 5000

StableDelay == 60000

ClientRestartDelay == 2000

MonitoringDelay == 15000

\* values of serverProcess that are no live child
NullRef == 0

NoPid == -1

ExitedRef == -2

Slots == 1..MaxChildren

Timer(kind, delay, child) == [kind |-> kind, delay |-> delay, child |-> child]

Event(server, client, by, child, countBefore) ==
    [server |-> server, client |-> client, by |-> by, child |-> child,
     countBefore |-> countBefore]

SupRunning == [state |-> "running", code |-> -1]

SupExited(code) == [state |-> "exited", code |-> code]

WithoutKind(ts, kind) == SelectSeq(ts, LAMBDA t : t.kind # kind)

\* now - lastRestartTime < 10000
Recent(ts) == \E i \in 1..Len(ts) : ts[i].kind = "window"

\* a cool-down of the same length whatever the count
CooldownTimeFlat(count) == CooldownStep

\* const cooldownTime = 5000 * (restartCount - 2)
CooldownTime(count) == CooldownStep * (count - 2)

\* a limit test that lets one more start through
AtLimitOffByOne(count) == count > maxRestarts

\* restartCount >= CONFIG.server.maxRestarts
AtLimit(count) == count >= maxRestarts

FreeSlot(al) ==
    IF Slots \ al = {} THEN 0
    ELSE CHOOSE s \in Slots \ al : \A r \in Slots \ al : s <= r

\* startServerProcess() on the state st = [server, alive, count, timers, sup,
\* outcome]; pidOk tells whether the spawn yields a pid
StartServerProcess(st, pidOk) ==
    IF Recent(st.timers) /\ st.count > RapidRestartCount
    THEN [st EXCEPT !.timers = Append(@, Timer("cooldown", CooldownTime(st.count), 0)),
                    !.outcome = "cooldown"]
    ELSE IF AtLimit(st.count)
    THEN [st EXCEPT !.sup = SupExited(1), !.outcome = "limit"]
    ELSE LET restarted == Append(WithoutKind(st.timers, "window"),
                                 Timer("window", RapidRestartWindow, 0))
         IN  IF pidOk
             THEN [st EXCEPT !.timers = restarted,
                             !.count = @ + 1,
                             !.alive = @ \cup {FreeSlot(st.alive)},
                             !.server = FreeSlot(st.alive),
                             !.outcome = "spawned"]
             ELSE [st EXCEPT !.timers = Append(restarted, Timer("restart", restartDelay, 0)),
                             !.count = @ + 1,
                             !.server = NoPid,
                             !.outcome = "failed"]

SupState(outcome) ==
    [server |-> devServerProcess, alive |-> alive, count |-> restartCount,
     timers |-> timers, sup |-> supervisor, outcome |-> outcome]

\* the variables startServerProcess() writes take the values of st
ServerStateBecomes(st) ==
    /\ devServerProcess' = st.server
    /\ alive' = st.alive
    /\ restartCount' = st.count
    /\ supervisor' = st.sup

\* an exit handler that schedules nothing
ExitHandlerSilent(requested, ts) == ts

\* serverProcess.on('exit'): if (!shutdownRequested) setTimeout(startServerProcess, restartDelay)
ExitHandler(requested, ts) ==
    IF requested THEN ts ELSE Append(ts, Timer("restart", restartDelay, 0))

\* main(): startServerProcess(), startClientProcess(), health monitoring timer
Main(pidOk) ==
    /\ supervisor.state = "init"
    /\ LET st == StartServerProcess([SupState("none") EXCEPT !.sup = SupRunning], pidOk)
       IN  /\ ServerStateBecomes(st)
           /\ timers' = Append(st.timers, Timer("monitor", MonitoringDelay, 0))
           /\ devClientProcess' = "alive"
           /\ lastEvent' = Event(st.outcome, "spawned", "other", 0, restartCount)
    /\ UNCHANGED <<shutdownRequested, healthCheck>>

\* the timer expires no earlier than a timer set before it with a delay that
\* is not longer; a health check never holds another timer up
Expired(ts, i) ==
    \A j \in 1..(i - 1) :
        ts[j].kind \in {"monitor", "health"} \/ ts[j].delay > ts[i].delay

\* setTimeout(startServerProcess, ...) expires: a restart or the end of a cool-down
StartTimerExpires(i, pidOk) ==
    /\ supervisor.state = "running"
    /\ timers[i].kind \in {"restart", "cooldown"}
    /\ Expired(timers, i)
    /\ LET st == StartServerProcess([SupState("none") EXCEPT !.timers = RemoveAt(timers, i)], pidOk)
       IN  /\ ServerStateBecomes(st)
           /\ timers' = st.timers
           /\ lastEvent' = Event(st.outcome, "none",
                                 IF timers[i].kind = "cooldown" THEN "cooldown" ELSE "other",
                                 0, restartCount)
    /\ UNCHANGED <<devClientProcess, shutdownRequested, healthCheck>>

\* ten seconds have passed since the last start
WindowExpires(i) ==
    /\ supervisor.state = "running"
    /\ timers[i].kind = "window"
    /\ Expired(timers, i)
    /\ timers' = RemoveAt(timers, i)
    /\ lastEvent' = Event("none", "none", "other", 0, restartCount)
    /\ UNCHANGED <<supervisor, devServerProcess, devClientProcess, alive, restartCount,
                   shutdownRequested, healthCheck>>

\* the timer set after a success indicator expires:
\* if (serverProcess && !shutdownRequested) restartCount = Math.max(0, restartCount - 1)
StableTimerExpires(i) ==
    /\ supervisor.state = "running"
    /\ timers[i].kind = "stable"
    /\ Expired(timers, i)
    /\ timers' = RemoveAt(timers, i)
    /\ IF devServerProcess # NullRef /\ ~shutdownRequested
       THEN /\ restartCount' = IF restartCount > 0 THEN restartCount - 1 ELSE 0
            /\ lastEvent' = Event("reduced", "none", "other", timers[i].child, restartCount)
       ELSE /\ UNCHANGED restartCount
            /\ lastEvent' = Event("none", "none", "other", 0, restartCount)
    /\ UNCHANGED <<supervisor, devServerProcess, devClientProcess, alive,
                   shutdownRequested, healthCheck>>

\* setTimeout(startClientProcess, 2000) expires
ClientTimerExpires(i) ==
    /\ supervisor.state = "running"
    /\ timers[i].kind = "client"
    /\ Expired(timers, i)
    /\ timers' = RemoveAt(timers, i)
    /\ devClientProcess' = "alive"
    /\ lastEvent' = Event("none", "spawned", "other", 0, restartCount)
    /\ UNCHANGED <<supervisor, devServerProcess, alive, restartCount,
                   shutdownRequested, healthCheck>>

\* the timer of prepareForShutdown expires: process.exit(0)
ExitTimerExpires(i) ==
    /\ supervisor.state = "running"
    /\ timers[i].kind = "exit"
    /\ Expired(timers, i)
    /\ timers' = RemoveAt(timers, i)
    /\ supervisor' = SupExited(0)
    /\ lastEvent' = Event("none", "none", "other", 0, restartCount)
    /\ UNCHANGED <<devServerProcess, devClientProcess, alive, restartCount,
                   shutdownRequested, healthCheck>>

\* the end of performHealthCheck(): restart what is not running, then
\* schedule the next check
HealthDecision(ts, serverRunning, clientRunning, pidOk) ==
    LET before == [SupState("none") EXCEPT !.timers = ts]
        st == IF serverRunning THEN before ELSE StartServerProcess(before, pidOk)
        gone == st.sup.state = "exited"
        killed == IF devClientProcess = "alive" /\ ~shutdownRequested
                  THEN Append(st.timers, Timer("client", ClientRestartDelay, 0))
                  ELSE st.timers
        clientTimers == IF clientRunning \/ gone THEN st.timers ELSE killed
    IN  /\ ServerStateBecomes(st)
        /\ devClientProcess' = IF clientRunning \/ gone THEN devClientProcess ELSE "alive"
        /\ timers' = IF shutdownRequested \/ gone THEN clientTimers
                     ELSE Append(clientTimers, Timer("health", healthCheckInterval, 0))
        /\ healthCheck' = [pc |-> "idle", serverAlive |-> FALSE, clientAlive |-> FALSE]
        /\ lastEvent' = Event(st.outcome,
                              IF clientRunning \/ gone THEN "none" ELSE "spawned",
                              "other", 0, restartCount)

\* performHealthCheck() from its timer to its first await, or to its end
\* when no child is there to be asked
HealthTimerExpires(i, pidOk) ==
    /\ supervisor.state = "running"
    /\ timers[i].kind \in {"monitor", "health"}
    /\ Expired(timers, i)
    /\ healthCheck.pc = "idle"
    /\ IF shutdownRequested
       THEN /\ timers' = RemoveAt(timers, i)
            /\ lastEvent' = Event("none", "none", "other", 0, restartCount)
            /\ UNCHANGED <<supervisor, devServerProcess, devClientProcess, alive,
                           restartCount, healthCheck>>
       ELSE IF devServerProcess \in alive \/ devClientProcess = "alive"
       THEN /\ timers' = RemoveAt(timers, i)
            /\ healthCheck' = [pc |-> "awaiting",
                               serverAlive |-> devServerProcess \in alive,
                               clientAlive |-> devClientProcess = "alive"]
            /\ lastEvent' = Event("none", "none", "other", 0, restartCount)
            /\ UNCHANGED <<supervisor, devServerProcess, devClientProcess, alive, restartCount>>
       ELSE HealthDecision(RemoveAt(timers, i), FALSE, FALSE, pidOk)
    /\ UNCHANGED shutdownRequested

\* performHealthCheck() from the answers of its fetches to its end
HealthResume(serverOk, clientOk, pidOk) ==
    /\ supervisor.state = "running"
    /\ healthCheck.pc = "awaiting"
    /\ HealthDecision(timers, healthCheck.serverAlive /\ serverOk,
                      healthCheck.clientAlive /\ clientOk, pidOk)
    /\ UNCHANGED shutdownRequested

\* a server child prints its success indicator: the stable timer is set
ServerStarted(slot) ==
    /\ supervisor.state = "running"
    /\ slot \in alive
    /\ \A k \in 1..Len(timers) : timers[k].child # slot
    /\ timers' = Append(timers, Timer("stable", StableDelay, slot))
    /\ lastEvent' = Event("none", "none", "other", 0, restartCount)
    /\ UNCHANGED <<supervisor, devServerProcess, devClientProcess, alive, restartCount,
                   shutdownRequested, healthCheck>>

\* a server child exits, killed or by itself; child 0 stands for an exited child
ServerExits(slot) ==
    /\ supervisor.state = "running"
    /\ slot \in alive
    /\ alive' = alive \ {slot}
    /\ devServerProcess' = IF devServerProcess = slot THEN ExitedRef ELSE devServerProcess
    /\ timers' = ExitHandler(shutdownRequested,
                     [k \in 1..Len(timers) |->
                         IF timers[k].child = slot THEN [timers[k] EXCEPT !.child = 0]
                         ELSE timers[k]])
    /\ lastEvent' = Event("exited", "none", "other", 0, restartCount)
    /\ UNCHANGED <<supervisor, devClientProcess, restartCount, shutdownRequested, healthCheck>>

\* the client child exits
ClientExits ==
    /\ supervisor.state = "running"
    /\ devClientProcess = "alive"
    /\ devClientProcess' = "exited"
    /\ timers' = IF shutdownRequested THEN timers
                 ELSE Append(timers, Timer("client", ClientRestartDelay, 0))
    /\ lastEvent' = Event("none", "none", "other", 0, restartCount)
    /\ UNCHANGED <<supervisor, devServerProcess, alive, restartCount, shutdownRequested,
                   healthCheck>>

\* prepareForShutdown() on SIGINT, SIGTERM or SIGHUP; the children are sent
\* SIGTERM and exit when they do
PrepareForShutdown ==
    /\ supervisor.state = "running"
    /\ ~shutdownRequested
    /\ shutdownRequested' = TRUE
    /\ timers' = Append(WithoutKind(timers, "health"),
                        Timer("exit", gracefulShutdownTimeout, 0))
    /\ lastEvent' = Event("none", "none", "other", 0, restartCount)
    /\ UNCHANGED <<supervisor, devServerProcess, devClientProcess, alive, restartCount,
                   healthCheck>>

\* timers that are pending, the window apart
Pending(ts) == Len(WithoutKind(ts, "window"))

\* server children that are alive or about to be started
Expected(al, ts) ==
    Cardinality(al) + Len(SelectSeq(ts, LAMBDA t : t.kind \in {"restart", "cooldown"}))

\* the supervisor is observed while it has room for its timers and children
WithinBounds == Pending(timers') <= MaxTimers /\ Expected(alive', timers') <= MaxChildren

SupIdle ==
    /\ supervisor = [state |-> "init", code |-> -1]
    /\ devServerProcess = NullRef
    /\ devClientProcess = "null"
    /\ alive = {}
    /\ restartCount = 0
    /\ shutdownRequested = FALSE
    /\ timers = <<>>
    /\ healthCheck = [pc |-> "idle", serverAlive |-> FALSE, clientAlive |-> FALSE]
    /\ lastEvent = Event("none", "none", "other", 0, 0)

(***************************************************************************)
(* The development launcher with Smart Recommendations                     *)
(* (enhanced-run-with-smart-rec.js)                                        *)
(***************************************************************************)
\* launcher:      the launcher process: idle before main(), running, or
\*                exited with a code
\* backend:       the server child of the latest startServerProcess call
\* restartTimers: the attempts of the pending setTimeout callbacks
\* spawnCount:    how many times the server was spawned (history)
\* helpers:       the Smart Recommendations and client children
VARIABLES launcher, backend, restartTimers, spawnCount, helpers

launcherVars == <<launcher, backend, restartTimers, spawnCount, helpers>>

\* CONFIG.server.maxRestarts
launcherMaxRestarts == 10

LauncherRunning == [state |-> "running", code |-> NoCode, by |-> "none"]

\* process.exit(code), or the exit of an uncaught exception
LauncherExited(code, by) == [state |-> "exited", code |-> code, by |-> by]

\* a limit test that lets one more attempt through
OverLimitOffByOne(attempt) == attempt > launcherMaxRestarts + 1

\* if (attempt > CONFIG.server.maxRestarts)
OverLimit(attempt) == attempt > launcherMaxRestarts

\* startServerProcess(attempt): process.exit(1) over the limit, else spawn
LauncherStartServerProcess(st, attempt) ==
    IF OverLimit(attempt)
    THEN [st EXCEPT !.launcher = LauncherExited(1, "limit")]
    ELSE [st EXCEPT !.backend = [attempt |-> attempt, state |-> "running", code |-> NoCode],
                    !.spawnCount = @ + 1]

\* serverProcess.on('close'): a code other than 0 (null, here NoCode, after a
\* signal included) sets the timer of the next attempt
CloseHandler(code, attempt, ts) ==
    IF code # 0 THEN Append(ts, attempt + 1) ELSE ts

\* main(): the Smart Recommendations server when one of its scripts exists,
\* startServerProcess() with the default attempt 1, the client
LauncherMain(scriptFound) ==
    /\ launcher.state = "idle"
    /\ LET st == LauncherStartServerProcess(
                     [launcher |-> LauncherRunning, backend |-> backend,
                      spawnCount |-> spawnCount], 1)
       IN  /\ launcher' = st.launcher
           /\ backend' = st.backend
           /\ spawnCount' = st.spawnCount
    /\ helpers' = [smartRec |-> IF scriptFound THEN "running" ELSE "none",
                   client |-> "running"]
    /\ UNCHANGED restartTimers

\* the server child closes
BackendClose(code) ==
    /\ launcher.state = "running"
    /\ backend.state = "running"
    /\ backend' = [backend EXCEPT !.state = "closed", !.code = code]
    /\ restartTimers' = CloseHandler(code, backend.attempt, restartTimers)
    /\ UNCHANGED <<launcher, spawnCount, helpers>>

\* the callback of a restart timer runs startServerProcess(attempt + 1)
RestartTimerExpires ==
    /\ launcher.state = "running"
    /\ restartTimers # <<>>
    /\ LET st == LauncherStartServerProcess(
                     [launcher |-> launcher, backend |-> backend,
                      spawnCount |-> spawnCount], Head(restartTimers))
       IN  /\ launcher' = st.launcher
           /\ backend' = st.backend
           /\ spawnCount' = st.spawnCount
    /\ restartTimers' = Tail(restartTimers)
    /\ UNCHANGED helpers

\* the server or the client child emits 'error' because it could not be
\* spawned; neither has an 'error' listener, so the launcher ends with the
\* uncaught exception
UncaughtSpawnError(child) ==
    /\ launcher.state = "running"
    /\ IF child = "backend" THEN backend.state = "running" ELSE helpers.client = "running"
    /\ launcher' = LauncherExited(1, "uncaught")
    /\ UNCHANGED <<backend, restartTimers, spawnCount, helpers>>

\* the Smart Recommendations or the client child closes: logged only
HelperClose(child) ==
    /\ launcher.state = "running"
    /\ helpers[child] = "running"
    /\ helpers' = [helpers EXCEPT ![child] = "closed"]
    /\ UNCHANGED <<launcher, backend, restartTimers, spawnCount>>

\* SIGINT or SIGTERM: process.exit(0)
LauncherSignal ==
    /\ launcher.state = "running"
    /\ launcher' = LauncherExited(0, "signal")
    /\ UNCHANGED <<backend, restartTimers, spawnCount, helpers>>

LauncherIdle ==
    /\ launcher = [state |-> "idle", code |-> NoCode, by |-> "none"]
    /\ backend = [attempt |-> 0, state |-> "none", code |-> NoCode]
    /\ restartTimers = <<>>
    /\ spawnCount = 0
    /\ helpers = [smartRec |-> "none", client |-> "none"]

(***************************************************************************)
(* Specifications                                                          *)
(***************************************************************************)
vars == <<env, pending, seen, last, providerUp, suppPending, suppLast,
          tiers, queues, cancelled, batch, attempts, serviced, horizon, ack,
          reqs, cache, computations, available, calls, fallbacks,
          aiService, listening, connections, closeCallbacks, exitTimers,
          exited, sigints, afterFirst,
          files, selectedOption, launched, startScript, serverProcess, runner,
          users, health_metrics, metricsBefore, metricsRun, usersResult,
          missingMetrics, addedMetrics, updatedCount,
          supervisor, devServerProcess, devClientProcess, alive, restartCount,
          shutdownRequested, timers, healthCheck, lastEvent,
          launcher, backend, restartTimers, spawnCount, helpers>>

\* the processes around the service: runners, scripts and supervisors
opsVars == <<sigVars, deployVars, metricsVars, supVars, launcherVars>>

NoFiles == files = {}

OpsIdle ==
    SigInit /\ NoFiles /\ DeployIdle /\ NoTables /\ MetricsIdle /\ SupIdle /\ LauncherIdle

EnvInit == env \in [OPENAI_API_KEY : EnvValues, GEMINI_API_KEY : EnvValues]

\* the AI optimization service
Init == EnvInit /\ HttpInit /\ SuppIdle /\ QueueInit /\ SvcInit /\ OpsIdle

Next ==
    \/ Health /\ UNCHANGED <<suppVars, queueVars, svcVars, opsVars>>
    \/ \E body \in Bodies : Generate(body) /\ UNCHANGED <<suppVars, queueVars, svcVars, opsVars>>
    \/ \E i \in 1..Len(pending) : GenerateResume(i) /\ UNCHANGED <<suppVars, queueVars, svcVars, opsVars>>
    \/ Stats /\ UNCHANGED <<suppVars, queueVars, svcVars, opsVars>>

Spec == Init /\ [][Next]_vars

\* the smart-recommendations server
InitSupp == EnvInit /\ SuppInit /\ HttpInit /\ QueueInit /\ SvcInit /\ OpsIdle

NextSupp ==
    \/ \E header \in UserIdHeaders : SupplementsRequest(header) /\ UNCHANGED <<httpVars, queueVars, svcVars, opsVars>>
    \/ \E i \in 1..Len(suppPending), fetched \in BOOLEAN :
          SupplementsFetched(i, fetched) /\ UNCHANGED <<httpVars, queueVars, svcVars, opsVars>>
    \/ \E i \in 1..Len(suppPending), outcome \in {"resolves", "throws"},
           n \in RecommendationCounts :
          SupplementsGenerated(i, outcome, n) /\ UNCHANGED <<httpVars, queueVars, svcVars, opsVars>>

SpecSupp == InitSupp /\ [][NextSupp]_vars

\* the batch / priority queue
NoEnv == [OPENAI_API_KEY |-> JSUndefined, GEMINI_API_KEY |-> JSUndefined]

InitQueue == env = NoEnv /\ HttpInit /\ SuppIdle /\ QueueInit /\ SvcInit /\ OpsIdle

NextQueue ==
    \/ \E tier \in Tiers : Enqueue(tier) /\ UNCHANGED <<env, httpVars, suppVars, svcVars, opsVars>>
    \/ \E item \in 1..Len(tiers) : Cancel(item) /\ UNCHANGED <<env, httpVars, suppVars, svcVars, opsVars>>
    \/ FlushTick /\ UNCHANGED <<env, httpVars, suppVars, svcVars, opsVars>>
    \/ \E ok \in BOOLEAN : ProcessItem(ok) /\ UNCHANGED <<env, httpVars, suppVars, svcVars, opsVars>>

SpecQueue == InitQueue /\ [][NextQueue]_vars

\* the service facade
InitSvc == env = NoEnv /\ HttpInit /\ SuppIdle /\ QueueInit /\ SvcInit /\ OpsIdle

NextSvc ==
    \/ \E content \in Contents, priority \in {"critical", "normal"}, forceFresh \in BOOLEAN :
          GenerateCompletion(content, priority, forceFresh)
            /\ UNCHANGED <<env, httpVars, suppVars, queueVars, opsVars>>
    \/ \E id \in 1..Len(reqs) : FlushRequest(id) /\ UNCHANGED <<env, httpVars, suppVars, queueVars, opsVars>>
    \/ \E c \in computations, ok \in BOOLEAN :
          ProviderReturns(c, ok) /\ UNCHANGED <<env, httpVars, suppVars, queueVars, opsVars>>
    \/ \E p \in {"openai", "gemini"} :
          CoolDownEnds(p) /\ UNCHANGED <<env, httpVars, suppVars, queueVars, opsVars>>

SpecSvc == InitSvc /\ [][NextSvc]_vars

\* the service without its HTTP traffic, for the specifications of the
\* processes around it
aiVars == <<env, httpVars, suppVars, queueVars, svcVars>>

AiIdle == env = NoEnv /\ HttpInit /\ SuppIdle /\ QueueInit /\ SvcInit

\* the AI optimization service process under SIGINT; a force-exit timer that
\* was set expires unless the process ends before
InitSig ==
    AiIdle /\ SigInit /\ NoFiles /\ DeployIdle /\ NoTables /\ MetricsIdle /\ SupIdle /\ LauncherIdle

NextSig ==
    \/ SubmitWork /\ UNCHANGED <<aiVars, deployVars, metricsVars, supVars, launcherVars>>
    \/ Connect /\ UNCHANGED <<aiVars, deployVars, metricsVars, supVars, launcherVars>>
    \/ Disconnect /\ UNCHANGED <<aiVars, deployVars, metricsVars, supVars, launcherVars>>
    \/ Sigint /\ UNCHANGED <<aiVars, deployVars, metricsVars, supVars, launcherVars>>
    \/ ForceExit /\ UNCHANGED <<aiVars, deployVars, metricsVars, supVars, launcherVars>>

\* the deployment runner; the runner and its children keep running
InitDeploy ==
    AiIdle /\ SigInit /\ DeployInit /\ NoTables /\ MetricsIdle /\ SupIdle /\ LauncherIdle

NextDeploy ==
    \/ \E chmodOk \in BOOLEAN : RunDeploy(chmodOk) /\ UNCHANGED <<aiVars, sigVars, metricsVars, supVars, launcherVars>>
    \/ StartScriptError /\ UNCHANGED <<aiVars, sigVars, metricsVars, supVars, launcherVars>>
    \/ StartScriptExit /\ UNCHANGED <<aiVars, sigVars, metricsVars, supVars, launcherVars>>
    \/ ServerSpawnError /\ UNCHANGED <<aiVars, sigVars, metricsVars, supVars, launcherVars>>
    \/ \E code \in ChildCodes : ServerExit(code) /\ UNCHANGED <<aiVars, sigVars, metricsVars, supVars, launcherVars>>
    \/ DeploySignal /\ UNCHANGED <<aiVars, sigVars, metricsVars, supVars, launcherVars>>

SpecDeploy == InitDeploy /\ [][NextDeploy]_vars /\ WF_vars(NextDeploy)

\* the development server supervisor; a timer that a start waits for expires
\* when it is due, and spawn does not fail every time a start timer calls it
notSup == <<aiVars, sigVars, deployVars, metricsVars, launcherVars>>

InitSup ==
    AiIdle /\ SigInit /\ NoFiles /\ DeployIdle /\ NoTables /\ MetricsIdle /\ SupIdle /\ LauncherIdle

StartTimerStep ==
    /\ \E i \in 1..Len(timers), pidOk \in BOOLEAN : StartTimerExpires(i, pidOk)
    /\ WithinBounds /\ UNCHANGED notSup

WindowStep ==
    (\E i \in 1..Len(timers) : WindowExpires(i)) /\ WithinBounds /\ UNCHANGED notSup

StableTimerStep ==
    (\E i \in 1..Len(timers) : StableTimerExpires(i)) /\ WithinBounds /\ UNCHANGED notSup

ClientTimerStep ==
    (\E i \in 1..Len(timers) : ClientTimerExpires(i)) /\ WithinBounds /\ UNCHANGED notSup

ExitTimerStep ==
    (\E i \in 1..Len(timers) : ExitTimerExpires(i)) /\ WithinBounds /\ UNCHANGED notSup

NextSup ==
    \/ \E pidOk \in BOOLEAN : Main(pidOk) /\ WithinBounds /\ UNCHANGED notSup
    \/ StartTimerStep
    \/ WindowStep
    \/ StableTimerStep
    \/ ClientTimerStep
    \/ ExitTimerStep
    \/ \E i \in 1..Len(timers), pidOk \in BOOLEAN :
          HealthTimerExpires(i, pidOk) /\ WithinBounds /\ UNCHANGED notSup
    \/ \E serverOk, clientOk, pidOk \in BOOLEAN :
          HealthResume(serverOk, clientOk, pidOk) /\ WithinBounds /\ UNCHANGED notSup
    \/ \E slot \in Slots : ServerStarted(slot) /\ WithinBounds /\ UNCHANGED notSup
    \/ \E slot \in Slots : ServerExits(slot) /\ WithinBounds /\ UNCHANGED notSup
    \/ ClientExits /\ WithinBounds /\ UNCHANGED notSup
    \/ PrepareForShutdown /\ WithinBounds /\ UNCHANGED notSup

SpecSup ==
    /\ InitSup
    /\ [][NextSup]_vars
    /\ WF_vars(StartTimerStep)
    /\ WF_vars(WindowStep)
    /\ WF_vars(ClientTimerStep)
    /\ SF_vars(StartTimerStep /\ lastEvent'.server = "spawned")

\* the essential-metrics script, run up to MaxRuns times one after the other
InitMetrics ==
    AiIdle /\ SigInit /\ NoFiles /\ DeployIdle /\ TablesInit /\ MetricsIdle /\ SupIdle /\ LauncherIdle

NextMetrics ==
    \/ \E ok \in BOOLEAN : StartRun(ok) /\ UNCHANGED <<aiVars, sigVars, deployVars, supVars, launcherVars>>
    \/ \E ok \in BOOLEAN : ProcessUser(ok) /\ UNCHANGED <<aiVars, sigVars, deployVars, supVars, launcherVars>>
    \/ \E ok \in BOOLEAN : InsertMetric(ok) /\ UNCHANGED <<aiVars, sigVars, deployVars, supVars, launcherVars>>
    \/ FinishRun /\ UNCHANGED <<aiVars, sigVars, deployVars, supVars, launcherVars>>

SpecMetrics == InitMetrics /\ [][NextMetrics]_vars

\* the development launcher with Smart Recommendations
notLauncher == <<aiVars, sigVars, deployVars, metricsVars, supVars>>

InitLauncher ==
    AiIdle /\ SigInit /\ NoFiles /\ DeployIdle /\ NoTables /\ MetricsIdle /\ SupIdle /\ LauncherIdle

NextLauncher ==
    \/ \E scriptFound \in BOOLEAN : LauncherMain(scriptFound) /\ UNCHANGED notLauncher
    \/ \E code \in ChildCodes : BackendClose(code) /\ UNCHANGED notLauncher
    \/ RestartTimerExpires /\ UNCHANGED notLauncher
    \/ \E child \in {"backend", "client"} : UncaughtSpawnError(child) /\ UNCHANGED notLauncher
    \/ \E child \in {"smartRec", "client"} : HelperClose(child) /\ UNCHANGED notLauncher
    \/ LauncherSignal /\ UNCHANGED notLauncher

SpecLauncher == InitLauncher /\ [][NextLauncher]_vars

SpecSig == InitSig /\ [][NextSig]_vars /\ WF_vars(ForceExit /\ UNCHANGED <<aiVars, deployVars, metricsVars, supVars, launcherVars>>)

(***************************************************************************)
(* Properties of the HTTP server                                           *)
(***************************************************************************)
Answered(route, status) == last.route = route /\ last.res.status = status

\* a provider is available when its API key is set to a non-empty string
KeySet(key) == key.t = "string" /\ key.s # ""

NoProviderAvailable == ~KeySet(env.OPENAI_API_KEY) /\ ~KeySet(env.GEMINI_API_KEY)

\* C1: POST /generate answers 400 exactly when the body has no userId, no
\* messages, or messages that are not an array; a body that carries a userId
\* and a messages array is never answered 400.
C1_BadRequestIffFieldMissing ==
    last.route = "/generate" =>
        (last.res.status = 400 <=>
            (\/ last.req.userId.t = "undefined"
             \/ last.req.messages.t = "undefined"
             \/ last.req.messages.t # "array"))

\* C2: GET /health reports 'degraded' exactly when neither provider is
\* available and 'healthy' otherwise, and the per-provider availability in
\* the body agrees with the environment and with that status.
C2_HealthDegradedIffNoProvider ==
    last.route = "/health" =>
        /\ last.res.body.status = (IF NoProviderAvailable THEN "degraded" ELSE "healthy")
        /\ last.res.status = (IF NoProviderAvailable THEN 503 ELSE 200)
        /\ (last.res.body.services.openai = "available") <=> KeySet(env.OPENAI_API_KEY)
        /\ (last.res.body.services.gemini = "available") <=> KeySet(env.GEMINI_API_KEY)
        /\ (last.res.body.status = "healthy") <=>
               (\/ last.res.body.services.openai = "available"
                \/ last.res.body.services.gemini = "available")

C2_DegradedReported ==
    /\ last.route = "/health"
    /\ NoProviderAvailable
    /\ last.res.body.status = "degraded"

\* C3: a request with forceFresh false for content that no earlier response
\* answered is a cache miss (cached false), and an identical request after
\* it is answered with cached true.
C3_FirstMissThenHit ==
    (Answered("/generate", 200) /\ last.req.forceFresh # "true") =>
        (last.res.body.metadata.cached <=> ~last.fresh)

\* C4: a request with forceFresh true is never answered with cached true,
\* whatever was served before it.
C4_ForceFreshNeverCached ==
    (Answered("/generate", 200) /\ last.req.forceFresh = "true") =>
        last.res.body.metadata.cached = FALSE

C4_ForceFreshAfterServed ==
    /\ Answered("/generate", 200)
    /\ last.req.forceFresh = "true"
    /\ ~last.fresh

\* the capability order of the models the service names
ModelRank(model) == IF model = "gpt-4o" THEN 2 ELSE 1

\* C8: the response reports the request's tier; a low-tier request is served
\* by the cheap model and a very_high-tier request by a model at least as
\* capable as the one that serves a high-tier request.
C8_TierDecidesModel ==
    Answered("/generate", 200) =>
        /\ last.res.body.metadata.complexity = last.req.complexity
        /\ last.req.complexity = "low" => last.res.body.metadata.modelUsed = "gpt-3.5-turbo"
        /\ last.req.complexity = "high" => last.res.body.metadata.modelUsed = "gpt-4o"
        /\ last.req.complexity = "very_high" =>
               ModelRank(last.res.body.metadata.modelUsed) >= ModelRank("gpt-4o")

\* C9: while no provider is available, a generation request is answered 503
\* and never with a generated response.
C9_NoProviderNoResponse ==
    (last.route = "/generate" /\ NoProviderAvailable /\ last.res.status # 400) =>
        /\ last.res.status = 503
        /\ "response" \notin DOMAIN last.res.body

\* response.queued as the caller reads it: a missing property is falsy
Queued(res) == IF "queued" \in DOMAIN res.body THEN res.body.queued ELSE FALSE

\* C10: the response to a request with priority critical has queued false,
\* and the critical queue size the stats report is 0.
C10_CriticalNeverQueued ==
    /\ (Answered("/generate", 200) /\ last.req.priority = "critical") => ~Queued(last.res)
    /\ last.route = "/stats" => last.res.body.queueSizes.critical = 0

C10_StatsWhileCriticalInFlight ==
    /\ last.route = "/stats"
    /\ \E i \in 1..Len(pending) : pending[i].priority = "critical"

(***************************************************************************)
(* Properties of the smart-recommendations server                          *)
(***************************************************************************)
\* C5: with OpenAI always failing and Gemini always succeeding, every
\* request that reaches the generation is answered 200 (served by Gemini).
C5_FallbackServesEveryRequest ==
    (/\ ~providerUp.openai
     /\ providerUp.gemini
     /\ suppLast.stage \in {"keyCheck", "generateSupplementRecommendations", "done"}) =>
        suppLast.res.status = 200

(***************************************************************************)
(* Properties of the batch / priority queue                                *)
(***************************************************************************)
TierRank(tier) ==
    CASE tier = "critical" -> 4
      [] tier = "high"     -> 3
      [] tier = "normal"   -> 2
      [] OTHER             -> 1

\* the order in which the items 1..4 were serviced
FirstFourServiced == SelectSeq(serviced, LAMBDA i : i <= 4)

\* C7: an item is serviced before every item of a lower tier, and before every
\* later item of its own tier, that was queued with it; items enqueued as
\* [low, high, normal, high] and then flushed are serviced as
\* [high, high, normal, low], the two high items in their enqueue order.
C7_ServicedByTierThenFifo ==
    /\ \A i, j \in 1..Len(serviced) :
          (i < j /\ serviced[j] <= horizon[i]) =>
              \/ TierRank(tiers[serviced[i]]) > TierRank(tiers[serviced[j]])
              \/ /\ tiers[serviced[i]] = tiers[serviced[j]]
                 /\ serviced[i] < serviced[j]
    /\ (/\ Len(tiers) >= 4
        /\ SubSeq(tiers, 1, 4) = <<"low", "high", "normal", "high">>
        /\ Len(FirstFourServiced) = 4
        /\ \A k \in 1..Len(serviced) : horizon[k] >= 4) =>
            FirstFourServiced = <<2, 4, 3, 1>>

C7_LowHighNormalHighServiced ==
    /\ tiers = <<"low", "high", "normal", "high">>
    /\ serviced = <<2, 4, 3, 1>>

(***************************************************************************)
(* Properties of the service facade                                        *)
(***************************************************************************)
Waiting(i) == reqs[i].status = "waiting"

\* two requests were in flight at the same time with the same fingerprint
Coalesced(i, j) ==
    /\ Fingerprint(reqs[i].content) = Fingerprint(reqs[j].content)
    /\ reqs[i].call # 0
    /\ reqs[i].call = reqs[j].call

\* C6: at most one computation is in flight per fingerprint; requests with
\* the same fingerprint that are in flight together wait for the same
\* orchestrator invocation and receive the same response.
C6_OneComputationPerFingerprint ==
    /\ \A c, d \in computations : c.fp = d.fp => c = d
    /\ \A i, j \in 1..Len(reqs) :
          (/\ Waiting(i) /\ Waiting(j)
           /\ Fingerprint(reqs[i].content) = Fingerprint(reqs[j].content)) =>
              reqs[i].call = reqs[j].call
    /\ \A i \in 1..Len(reqs) :
          Waiting(i) => \E c \in computations : c.call = reqs[i].call /\ i \in c.waiters
    /\ \A i, j \in 1..Len(reqs) :
          (Coalesced(i, j) /\ ~Waiting(i) /\ ~Waiting(j)) =>
              (reqs[i].status = reqs[j].status /\ reqs[i].res = reqs[j].res)

C6_TwoCallersOneResponse ==
    \E i, j \in 1..Len(reqs) :
        /\ i # j
        /\ reqs[i].content # reqs[j].content
        /\ Coalesced(i, j)
        /\ reqs[i].status = "done"
        /\ reqs[i].res = reqs[j].res
        /\ reqs[i].res.call = reqs[i].call

\* C11: two requests with the same message array are reported with the same
\* complexity tier, whatever else the requests carry and whatever was served
\* before: a response never reports another tier than the response before it
\* when both answer the same message array.
C11_SameMessagesSameComplexity ==
    [][(/\ Answered("/generate", 200)
        /\ last'.route = "/generate" /\ last'.res.status = 200
        /\ last'.req.messages = last.req.messages) =>
            last'.res.body.metadata.complexity = last.res.body.metadata.complexity]_vars

(***************************************************************************)
(* Properties of the SIGINT handler                                        *)
(***************************************************************************)
\* the state a single SIGINT delivery ends in: the service shut down, the
\* server closed, and the process ended by the close callback with code 0 or
\* by the force-exit timer of that delivery with code 1
SingleDeliveryOutcome ==
    /\ <<aiService, listening>> = <<afterFirst.aiService, afterFirst.listening>>
    /\ aiService.stopped /\ aiService.queued = 0 /\ aiService.providers = "released"
    /\ exited # Running =>
          \/ exited = [code |-> 0, by |-> "close"] /\ connections = 0
          \/ exited = [code |-> 1, by |-> "timer"] /\ Len(exitTimers) = sigints - 1

\* C12: after two or more SIGINT deliveries the service, the server and the
\* way the process ends are those of a single delivery, and the process
\* terminates after any delivery.
C12_RepeatedSigintLikeOne ==
    /\ [](sigints >= 1 => SingleDeliveryOutcome)
    /\ (sigints >= 1) ~> (exited # Running)

C12_ExitedAfterTwoSigints ==
    /\ sigints >= 2
    /\ exited # Running
    /\ aiService.flushed > 0

(***************************************************************************)
(* Properties of the deployment runner                                     *)
(***************************************************************************)
ServerFailed == serverProcess.state = "exited" /\ serverProcess.code # 0

\* C13: after the server child exits with a non-zero code the runner
\* eventually has a server child running again.
C13_RestartAfterFailure == ServerFailed ~> (serverProcess.state = "running")

\* C14: every child the runner launches is node running the selected option,
\* and the selected option is the first entry of the preference list whose
\* file exists, or the fallback server when none exists.
C14_LaunchesSelectedServer ==
    runner.state # "starting" =>
        /\ selectedOption = SelectOption(files \ {FallbackServer})
        /\ launched # <<>>
        /\ \A i \in 1..Len(launched) : launched[i] = Command("node", selectedOption)

(***************************************************************************)
(* Properties of the essential-metrics script                              *)
(***************************************************************************)
ProfileComplete(u) == users[u].onboarding_completed /\ users[u].questionnaires > 0

\* C15: once a run has completed without error every user with onboarding
\* completed and a questionnaire has all four essential metrics; a run only
\* ever inserts a metric the user had no row of, and a run started after a
\* completed run inserts nothing.
C15_EssentialMetricsEnsuredOnce ==
    /\ metricsRun.completed > 0 =>
          \A u \in UserIdsOfTable : ProfileComplete(u) =>
              \A t \in EssentialTypes : health_metrics[u][t] > 0
    /\ \A u \in UserIdsOfTable, t \in EssentialTypes :
          \/ health_metrics[u][t] = metricsBefore[u][t]
          \/ metricsBefore[u][t] = 0 /\ health_metrics[u][t] = 1 /\ ProfileComplete(u)
    /\ metricsRun.cleanBefore => (addedMetrics = 0 /\ updatedCount = 0)

C15_SecondRunAddedNothing ==
    /\ metricsRun.pc = "done"
    /\ metricsRun.cleanBefore
    /\ addedMetrics = 0
    /\ \E u \in UserIdsOfTable :
          /\ users[u].questionnaires > 1
          /\ \E t \in EssentialTypes : metricsBefore[u][t] = 0 /\ health_metrics[u][t] = 1

(***************************************************************************)
(* Properties of the development server supervisor                         *)
(***************************************************************************)
\* the last step was a call of startServerProcess()
StartAttempted == lastEvent.server \in {"spawned", "failed", "cooldown", "limit"}

\* C16: at most one server child started by the supervisor is alive at any
\* time, so no failure is answered with two server children.
C16_OneLiveServerChild == Cardinality(alive) <= 1

\* C17: once shutdown has been requested no step spawns a server child or a
\* client child.
C17_NoSpawnAfterShutdown ==
    shutdownRequested => (lastEvent.server # "spawned" /\ lastEvent.client # "spawned")

C20_ReducedOnlyWhenStable ==
    lastEvent.server = "reduced" => lastEvent.child \in alive

\* the timers of one kind that are pending
OfKind(ts, kind) == SelectSeq(ts, LAMBDA t : t.kind = kind)

\* C21: a start requested while the ten seconds since the previous start are
\* not over and restartCount is greater than 3 spawns no process, leaves
\* restartCount and the time of the last start as they are, and sets exactly
\* one retry timer, of 5000 * (restartCount - 2) milliseconds.
C21_RapidStartOnlyCoolsDown ==
    [][(StartAttempted' /\ Recent(timers) /\ restartCount > RapidRestartCount) =>
          /\ lastEvent'.server = "cooldown"
          /\ alive' = alive
          /\ devServerProcess' = devServerProcess
          /\ supervisor' = supervisor
          /\ restartCount' = restartCount
          /\ OfKind(timers', "window") = OfKind(timers, "window")
          /\ Len(OfKind(timers', "restart")) <= Len(OfKind(timers, "restart"))
          /\ Len(OfKind(timers', "cooldown")) =
                Len(OfKind(timers, "cooldown")) + (IF lastEvent'.by = "cooldown" THEN 0 ELSE 1)
          /\ \E k \in 1..Len(timers') :
                /\ timers'[k] = Timer("cooldown", 5000 * (restartCount - 2), 0)
                /\ \A j \in (k + 1)..Len(timers') : timers'[j].kind \in {"client", "health"}]_vars

C21_CoolingDownAfterFiveStarts ==
    /\ lastEvent.server = "cooldown"
    /\ restartCount = 5
    /\ supervisor = SupRunning
    /\ Recent(timers)
    /\ \E k \in 1..Len(timers) : timers[k] = Timer("cooldown", 15000, 0)

(***************************************************************************)
(* Properties of the development launcher                                  *)
(***************************************************************************)
\* a restart timer's callback runs in the step
LauncherStartAttempted == Len(restartTimers') < Len(restartTimers)

\* C22: the server is spawned again only after it closed with a code other
\* than 0, each restart has the attempt number after the one that closed, the
\* server is spawned at most maxRestarts times, and the start attempted after
\* the last allowed attempt failed ends the launcher with exit code 1 and
\* spawns nothing.
C22_RestartsBoundedByMaxRestarts ==
    [][/\ spawnCount' # spawnCount =>
            /\ spawnCount' = spawnCount + 1
            /\ spawnCount' <= launcherMaxRestarts
            /\ backend'.state = "running"
            /\ backend'.attempt = spawnCount'
            /\ spawnCount >= 1 =>
                  /\ backend.state = "closed"
                  /\ backend.code # 0
                  /\ backend'.attempt = backend.attempt + 1
       /\ (LauncherStartAttempted /\ backend.attempt >= launcherMaxRestarts) =>
            /\ backend.state = "closed" /\ backend.code # 0
            /\ launcher' = LauncherExited(1, "limit")
            /\ spawnCount' = spawnCount
            /\ backend' = backend]_vars

C22_GaveUpAfterLastAttempt ==
    /\ launcher = LauncherExited(1, "limit")
    /\ spawnCount = launcherMaxRestarts
    /\ backend = [attempt |-> launcherMaxRestarts, state |-> "closed", code |-> 1]
    /\ restartTimers = <<>>

====
